---- MODULE Spec2Model ----
(***************************************************************************)
(* Model of the DEVSITES404 backend: the pricing functions of              *)
(* business_logic.py, the Database methods of database.py (a MongoDB       *)
(* document store beneath them) and the request handlers of server.py.     *)
(*                                                                         *)
(* Money is a Python float with two decimals in the source.  It is kept    *)
(* here as an integer number of 1/10000 dollar, so that 49.99 is 499900    *)
(* and round(x, 2) is a real rounding to a multiple of 100.                *)
(*                                                                         *)
(* A stored document carries "oid", MongoDB's own _id (an ObjectId the     *)
(* driver adds to a document inserted without one), next to the field      *)
(* "id" that the pydantic model generates (a uuid4 string) or takes from   *)
(* its caller.  Identifiers are tagged pairs: <<"oid", n>> is              *)
(* str(ObjectId), <<"uuid", n>> a generated uuid4, <<"client", n>> a       *)
(* caller-supplied string.                                                 *)
(*                                                                         *)
(* Every store operation (insert_one, update_one, find_one, find,          *)
(* count_documents) is one atomic step that may raise: "fault" is that     *)
(* choice.  A handler with one store operation is one action; the          *)
(* newsletter signup and the stats query await several, and are one        *)
(* action per store operation, so that other requests interleave.          *)
(*                                                                         *)
(* The three collections are independent of each other, and only the       *)
(* stats query reads more than one.  Next is the whole server; the         *)
(* properties are checked under the specifications SpecQuote,              *)
(* SpecContacts, SpecListing, SpecNewsletter, SpecIndexed, SpecFaults and  *)
(* SpecStats, each the requests that touch what the property is about.     *)
(***************************************************************************)
EXTENDS Integers, Sequences, FiniteSets, TLC

\* ---------------------------------------------------------------- bounds
MaxContacts == 2
MaxInquiries == 2
MaxClock == 1
NumCallers == 2
PageLimit == 1

\* ------------------------------------------------------------ input sets
ProjectTypes == {"basic", "standard", "premium", "Basic", "STANDARD", ""}
Emails == {"a@x.io", "b@x.io"}
StatusArgs == {"new", "contacted", "closed", "archived"}
NoId == <<"absent", 0>>
NoStatus == "absent"
ClientIds == {<<"client", 1>>}
Callers == 1..NumCallers
ContactIdArgs ==
    ClientIds \cup {<<"uuid", n>> : n \in 1..MaxContacts}
              \cup {<<"oid", n>> : n \in 1..MaxContacts}
\* the three listings of the pagination property, at page size PageLimit
ListArgs == {<<0, PageLimit>>, <<PageLimit, PageLimit>>, <<0, 2 * PageLimit>>}
NoPages == [a \in ListArgs |-> [listed |-> FALSE]]

VARIABLES
    db,           \* Database.db: "none" before connect(), "open" after
    uniqueIndex,  \* the unique index on newsletter_subscribers.email exists
    now,          \* datetime.utcnow(), at the store's millisecond resolution
    contacts,     \* collection db.contacts, in insertion order
    inquiries,    \* collection db.project_inquiries, in insertion order
    subscribers,  \* collection db.newsletter_subscribers, in insertion order
    pages,        \* results of get_contacts since the last write to contacts
    call,         \* the in-flight POST /newsletter requests, one per caller
    stats,        \* the in-flight GET /stats request
    resp          \* outcome of the last single-step operation

vars == <<db, uniqueIndex, now, contacts, inquiries, subscribers, pages, call,
          stats, resp>>

\* ------------------------------------------------------- business_logic.py
BasicPrice == 499900
StandardPrice == 699900
domain_cost == 199900
database_cost == 299900

base_prices == [basic |-> BasicPrice, standard |-> StandardPrice]

\* dict.get(key, default)
DictGet(d, k, default) == IF k \in DOMAIN d THEN d[k] ELSE default

\* round(x, 2): to the nearest multiple of 100 units, ties to even
Round2(x) ==
    LET q == x \div 100
        r == x % 100
    IN  IF r > 50 \/ (r = 50 /\ q % 2 = 1) THEN (q + 1) * 100 ELSE q * 100

\* the fallback of an unrecognized type taken from the wrong entry
calculate_cost_WrongFallback(project_type, include_domain, include_database) ==
    LET t0 == DictGet(base_prices, project_type, base_prices["standard"])
        t1 == IF include_domain THEN t0 + domain_cost ELSE t0
        t2 == IF include_database THEN t1 + database_cost ELSE t1
    IN  Round2(t2)

calculate_project_cost(project_type, include_domain, include_database) ==
    LET t0 == DictGet(base_prices, project_type, base_prices["basic"])
        t1 == IF include_domain THEN t0 + domain_cost ELSE t0
        t2 == IF include_database THEN t1 + database_cost ELSE t1
    IN  Round2(t2)

\* the membership test made case-insensitive
validate_project_type_AnyCase(project_type) ==
    project_type \in {"basic", "standard", "Basic", "STANDARD"}

validate_project_type(project_type) == project_type \in {"basic", "standard"}

\* str.title() on the project types drawn here
Title(s) ==
    CASE s = "basic" -> "Basic"
      [] s = "standard" -> "Standard"
      [] s = "premium" -> "Premium"
      [] s = "Basic" -> "Basic"
      [] s = "STANDARD" -> "Standard"
      [] OTHER -> s

project_features ==
    [basic |-> <<"Up to 3 pages", "Responsive design", "Basic contact form",
                 "SEO optimization", "Mobile-friendly", "2-week delivery",
                 "Basic support">>,
     standard |-> <<"3+ pages (unlimited)", "Advanced responsive design",
                    "Multiple contact forms", "Advanced SEO optimization",
                    "Performance optimization", "Social media integration",
                    "2-week delivery", "Priority support">>]

get_project_features(project_type) ==
    DictGet(project_features, project_type, project_features["basic"])

get_addon_features ==
    [domain |-> [name |-> "Domain Setup", price |-> 199900,
                 features |-> <<"Domain registration", "DNS configuration",
                                "SSL certificate setup",
                                "Email forwarding setup">>],
     database |-> [name |-> "Database Setup", price |-> 299900,
                   features |-> <<"User registration system",
                                  "Email & name storage", "Basic user profiles",
                                  "Data backup included">>]]

\* [f"(check mark) {feature}" for feature in features]
Checked(features) == [i \in 1..Len(features) |-> "+ " \o features[i]]

Addon(a) == [name |-> a.name, cost |-> a.price, features |-> a.features]

generate_project_summary(project_type, include_domain, include_database) ==
    LET addon_features == get_addon_features
        dom == IF include_domain THEN <<addon_features.domain>> ELSE <<>>
        dat == IF include_database THEN <<addon_features.database>> ELSE <<>>
        sel == dom \o dat
        extra == IF include_domain
                 THEN Checked(addon_features.domain.features) ELSE <<>>
        extra2 == IF include_database
                  THEN Checked(addon_features.database.features) ELSE <<>>
    IN  [project_type |-> Title(project_type),
         base_cost |-> IF project_type = "basic" THEN 499900 ELSE 699900,
         total_cost |-> calculate_project_cost(project_type, include_domain,
                                               include_database),
         features |-> get_project_features(project_type) \o extra \o extra2,
         addons |-> [i \in 1..Len(sel) |-> Addon(sel[i])],
         estimated_timeline |-> "14 days",
         support_level |-> IF project_type = "basic" THEN "Basic"
                           ELSE "Priority"]

\* ------------------------------------------------------------- database.py
Raised == [raised |-> TRUE]
Returned(v, coll) == [raised |-> FALSE, value |-> v, coll |-> coll]

\* uuid4 / ObjectId of the n-th document of a collection
Uuid(n) == <<"uuid", n>>
Oid(n) == <<"oid", n>>

\* ContactSubmission(**contact_data): the defaults fill what the caller left out
ContactSubmission(contact_data, n) ==
    [id |-> IF contact_data.id = NoId THEN Uuid(n) ELSE contact_data.id,
     status |-> IF contact_data.status = NoStatus THEN "new"
                ELSE contact_data.status,
     created_at |-> now,
     updated_at |-> now]

WithOid(m, n) == [oid |-> n] @@ m

\* result.inserted_id is the ObjectId of the new document, never empty, so
\* the returned contact always takes it as its id
create_contact(contact_data, fault) ==
    LET n == Len(contacts) + 1
        contact == ContactSubmission(contact_data, n)
    IN  IF fault THEN Raised
        ELSE Returned([contact EXCEPT !.id = Oid(n)],
                      Append(contacts, WithOid(contact, n)))

\* the documents a query {"id": contact_id} matches, in natural order;
\* update_one and find_one take the first
Matching(coll, contact_id) == {i \in 1..Len(coll) : coll[i].id = contact_id}
Min(S) == CHOOSE x \in S : \A y \in S : x <= y

\* modified_count is 0 when the $set changes nothing: same status, and a
\* utcnow() that falls in the millisecond already stored in updated_at
update_contact_status(contact_id, status, fault) ==
    LET m == Matching(contacts, contact_id)
    IN  IF fault THEN Raised
        ELSE IF m = {} THEN Returned(FALSE, contacts)
        ELSE LET i == Min(m)
                 new == [contacts[i] EXCEPT !.status = status,
                                            !.updated_at = now]
                 modified_count == IF new = contacts[i] THEN 0 ELSE 1
             IN  Returned(modified_count > 0, [contacts EXCEPT ![i] = new])

\* the orders in which sort("created_at", -1) may hand the documents out.
\* MongoDB fixes no order among documents with equal sort keys, and the order
\* may differ from one query to the next (it asks for a unique field in the
\* sort where a consistent order is wanted); created_at is stored in
\* milliseconds and two contacts created in the same millisecond tie
Perms(n) == {f \in [1..n -> 1..n] : \A i, j \in 1..n : i # j => f[i] # f[j]}
SortedOrders(coll) ==
    {f \in Perms(Len(coll)) :
        \A i, j \in 1..Len(coll) :
            i < j => coll[f[i]].created_at >= coll[f[j]].created_at}

\* find().skip(skip).limit(limit).sort("created_at", -1): the cursor sorts
\* first, then skips, then limits, whatever the order of the calls.  The
\* returned models keep oid here, as the identity of the record listed
get_contacts(skip, limit, order, fault) ==
    LET left == Len(contacts) - skip
        n == IF left < 0 THEN 0 ELSE IF left < limit THEN left ELSE limit
    IN  IF fault THEN Raised
        ELSE Returned([k \in 1..n |-> contacts[order[skip + k]]], contacts)

\* the snapshot taken of the bare base price, the add-ons left out
ProjectInquiry_BaseOnly(inquiry_data, n) ==
    [id |-> Uuid(n),
     project_type |-> inquiry_data.project_type,
     include_domain |-> inquiry_data.include_domain,
     include_database |-> inquiry_data.include_database,
     estimated_cost |-> DictGet(base_prices, inquiry_data.project_type,
                                BasicPrice),
     status |-> "pending"]

\* ProjectInquiry(**inquiry_data)
ProjectInquiry(inquiry_data, n) ==
    [id |-> Uuid(n),
     project_type |-> inquiry_data.project_type,
     include_domain |-> inquiry_data.include_domain,
     include_database |-> inquiry_data.include_database,
     estimated_cost |-> inquiry_data.estimated_cost,
     status |-> "pending"]

create_project_inquiry(inquiry_data, fault) ==
    LET n == Len(inquiries) + 1
        inquiry == ProjectInquiry(inquiry_data, n)
    IN  IF fault THEN Raised
        ELSE Returned([inquiry EXCEPT !.id = Oid(n)],
                      Append(inquiries, WithOid(inquiry, n)))

\* NewsletterSubscriber(email=email)
NewsletterSubscriber(email, n) ==
    [id |-> Uuid(n), email |-> email, subscribed |-> TRUE,
     created_at |-> now, updated_at |-> now]

\* NewsletterSubscriber(**existing): the model ignores the document's _id
FromDocument(doc) ==
    [id |-> doc.id, email |-> doc.email, subscribed |-> doc.subscribed,
     created_at |-> doc.created_at, updated_at |-> doc.updated_at]

WithEmail(email) == {i \in 1..Len(subscribers) : subscribers[i].email = email}

\* insert_one on newsletter_subscribers: refused with a duplicate key error
\* when the unique index exists and holds the email
DuplicateKey(email) == uniqueIndex /\ WithEmail(email) # {}

\* count_documents({"subscribed": True})
ActiveSubscribers ==
    Cardinality({i \in 1..Len(subscribers) : subscribers[i].subscribed})

computed_stats(total_contacts, total_inquiries, total_subscribers) ==
    [projects_completed |-> total_inquiries + 85,
     client_satisfaction |-> 100,
     average_turnaround |-> 14,
     total_contacts |-> total_contacts,
     total_inquiries |-> total_inquiries,
     newsletter_subscribers |-> total_subscribers]

database_default_stats ==
    [projects_completed |-> 100, client_satisfaction |-> 100,
     average_turnaround |-> 14, total_contacts |-> 0, total_inquiries |-> 0,
     newsletter_subscribers |-> 0]

\* the except clause of Database.get_company_stats letting the error out
count_failed_Reraise == Raised

\* the except clause of Database.get_company_stats
count_failed == Returned(database_default_stats, <<>>)

\* --------------------------------------------------------------- server.py
handler_default_stats ==
    [projects_completed |-> 100, client_satisfaction |-> 99,
     average_turnaround |-> 14, total_contacts |-> 0, total_inquiries |-> 0,
     newsletter_subscribers |-> 0]

\* server.get_company_stats around the outcome r of the database call
stats_response(r) ==
    IF r.raised THEN [code |-> 200, body |-> handler_default_stats]
    ELSE [code |-> 200, body |-> r.value]

\* the except clause of server.subscribe_newsletter answering with an error
newsletter_response_Propagate(raised) ==
    IF raised
    THEN [code |-> 500, success |-> FALSE,
          message |-> "Failed to subscribe"]
    ELSE [code |-> 200, success |-> TRUE,
          message |-> "Successfully subscribed to our newsletter!"]

\* server.subscribe_newsletter around the outcome of the database call
newsletter_response(raised) ==
    IF raised
    THEN [code |-> 200, success |-> TRUE,
          message |-> "Thank you for your interest! We'll keep you updated."]
    ELSE [code |-> 200, success |-> TRUE,
          message |-> "Successfully subscribed to our newsletter!"]

Init ==
    /\ db = "none"
    /\ uniqueIndex = FALSE
    /\ now = 0
    /\ contacts = <<>>
    /\ inquiries = <<>>
    /\ subscribers = <<>>
    /\ pages = NoPages
    /\ call = [p \in Callers |-> [pc |-> "idle"]]
    /\ stats = [pc |-> "idle"]
    /\ resp = [op |-> "none"]

\* startup_db -> Database.connect: ping, then create_indexes, whose failure
\* is logged and swallowed
Connect(indexed) ==
    /\ db = "none"
    /\ db' = "open"
    /\ uniqueIndex' = indexed
    /\ UNCHANGED <<now, contacts, inquiries, subscribers, pages, call, stats,
                   resp>>

Tick ==
    /\ now < MaxClock
    /\ now' = now + 1
    /\ UNCHANGED <<db, uniqueIndex, contacts, inquiries, subscribers, pages,
                   call, stats, resp>>

\* a direct call of calculate_project_cost
CalculateProjectCost(project_type, include_domain, include_database) ==
    /\ resp' = [op |-> "calculate_project_cost",
                project_type |-> project_type,
                include_domain |-> include_domain,
                include_database |-> include_database,
                value |-> calculate_project_cost(project_type, include_domain,
                                                 include_database)]
    /\ UNCHANGED <<db, uniqueIndex, now, contacts, inquiries, subscribers,
                   pages, call, stats>>

\* a direct call of generate_project_summary
GenerateProjectSummary(project_type, include_domain, include_database) ==
    /\ resp' = [op |-> "generate_project_summary",
                project_type |-> project_type,
                include_domain |-> include_domain,
                include_database |-> include_database,
                value |-> generate_project_summary(project_type,
                              include_domain, include_database)]
    /\ UNCHANGED <<db, uniqueIndex, now, contacts, inquiries, subscribers,
                   pages, call, stats>>

submit_project_inquiry(project_type, include_domain, include_database) ==
    /\ db = "open"
    /\ LET args == [op |-> "submit_project_inquiry",
                    project_type |-> project_type,
                    include_domain |-> include_domain,
                    include_database |-> include_database]
       IN  IF ~validate_project_type(project_type)
           THEN /\ resp' = [code |-> 400, stored |-> inquiries] @@ args
                /\ UNCHANGED inquiries
           ELSE \E fault \in BOOLEAN :
                  LET estimated_cost ==
                          calculate_project_cost(project_type, include_domain,
                                                 include_database)
                      r == create_project_inquiry(
                               [estimated_cost |-> estimated_cost] @@ args,
                               fault)
                  IN  IF r.raised
                      THEN /\ resp' = [code |-> 500, fault |-> fault,
                                       stored |-> inquiries] @@ args
                           /\ UNCHANGED inquiries
                      ELSE /\ Len(inquiries) < MaxInquiries
                           /\ inquiries' = r.coll
                           /\ resp' = [code |-> 200, success |-> TRUE,
                                       fault |-> fault,
                                       estimated_cost |-> estimated_cost,
                                       id |-> r.value.id,
                                       stored |-> inquiries] @@ args
    /\ UNCHANGED <<db, uniqueIndex, now, contacts, subscribers, pages, call,
                   stats>>

get_project_summary(project_type, include_domain, include_database) ==
    /\ db = "open"
    /\ LET args == [op |-> "get_project_summary",
                    project_type |-> project_type,
                    include_domain |-> include_domain,
                    include_database |-> include_database]
       IN  IF ~validate_project_type(project_type)
           THEN resp' = [code |-> 400, stored |-> inquiries] @@ args
           ELSE resp' = [code |-> 200, stored |-> inquiries,
                         summary |-> generate_project_summary(
                             project_type, include_domain, include_database)]
                        @@ args
    /\ UNCHANGED <<db, uniqueIndex, now, contacts, inquiries, subscribers,
                   pages, call, stats>>

submit_contact_form ==
    /\ db = "open"
    /\ \E fault \in BOOLEAN :
          LET r == create_contact([id |-> NoId, status |-> NoStatus], fault)
          IN  IF r.raised
              THEN /\ resp' = [op |-> "submit_contact_form", fault |-> fault,
                               code |-> 500]
                   /\ UNCHANGED <<contacts, pages>>
              ELSE /\ Len(contacts) < MaxContacts
                   /\ contacts' = r.coll
                   /\ pages' = NoPages
                   /\ resp' = [op |-> "submit_contact_form", fault |-> fault,
                               code |-> 200, success |-> TRUE,
                               id |-> r.value.id]
    /\ UNCHANGED <<db, uniqueIndex, now, inquiries, subscribers, call, stats>>

\* a direct call of Database.create_contact
CreateContact(contact_data) ==
    /\ db = "open"
    /\ \E fault \in BOOLEAN :
          LET r == create_contact(contact_data, fault)
          IN  IF r.raised
              THEN /\ resp' = [op |-> "create_contact", raised |-> TRUE]
                   /\ UNCHANGED <<contacts, pages>>
              ELSE /\ Len(contacts) < MaxContacts
                   /\ contacts' = r.coll
                   /\ pages' = NoPages
                   /\ resp' = [op |-> "create_contact", raised |-> FALSE,
                               value |-> r.value]
    /\ UNCHANGED <<db, uniqueIndex, now, inquiries, subscribers, call, stats>>

\* a direct call of Database.update_contact_status
UpdateContactStatus(contact_id, status) ==
    /\ db = "open"
    /\ \E fault \in BOOLEAN :
          LET r == update_contact_status(contact_id, status, fault)
          IN  IF r.raised
              THEN /\ resp' = [op |-> "update_contact_status",
                               raised |-> TRUE]
                   /\ UNCHANGED <<contacts, pages>>
              ELSE /\ contacts' = r.coll
                   /\ pages' = IF r.coll = contacts THEN pages ELSE NoPages
                   /\ resp' = [op |-> "update_contact_status",
                               raised |-> FALSE, contact_id |-> contact_id,
                               status |-> status, value |-> r.value,
                               before |-> contacts]
    /\ UNCHANGED <<db, uniqueIndex, now, inquiries, subscribers, call, stats>>

\* GET /admin/contacts
GetContacts(skip, limit) ==
    /\ db = "open"
    /\ \E fault \in BOOLEAN, order \in SortedOrders(contacts) :
          LET r == get_contacts(skip, limit, order, fault)
          IN  IF r.raised
              THEN /\ resp' = [op |-> "get_contacts", code |-> 500]
                   /\ UNCHANGED pages
              ELSE /\ resp' = [op |-> "get_contacts", code |-> 200]
                   /\ pages' = [pages EXCEPT ![<<skip, limit>>] =
                                    [listed |-> TRUE, items |-> r.value]]
    /\ UNCHANGED <<db, uniqueIndex, now, contacts, inquiries, subscribers,
                   call, stats>>

ContactsNext ==
    \/ \E indexed \in BOOLEAN : Connect(indexed)
    \/ Tick
    \/ submit_contact_form
    \/ \E i \in {NoId} \cup ClientIds, s \in {NoStatus, "archived"} :
          CreateContact([id |-> i, status |-> s])
    \/ \E i \in ContactIdArgs, s \in StatusArgs : UpdateContactStatus(i, s)

SpecContacts == Init /\ [][ContactsNext]_vars

ListingNext ==
    \/ \E indexed \in BOOLEAN : Connect(indexed)
    \/ Tick
    \/ submit_contact_form
    \/ \E a \in ListArgs : GetContacts(a[1], a[2])

SpecListing == Init /\ [][ListingNext]_vars

\* POST /newsletter arrives: the handler calls Database.subscribe_newsletter
NewsletterRequest(p, email) ==
    /\ db = "open"
    /\ call[p].pc = "idle"
    /\ call' = [call EXCEPT ![p] =
                   [pc |-> "insert", email |-> email,
                    prior |-> {q \in Callers :
                                 /\ call[q].pc = "done"
                                 /\ call[q].email = email}]]
    /\ UNCHANGED <<db, uniqueIndex, now, contacts, inquiries, subscribers,
                   pages, stats, resp>>

\* the request of caller p ends: the database call raised at a step, or
\* returned the subscriber ret along the path taken
Failed(c, step) ==
    [pc |-> "done", email |-> c.email, prior |-> c.prior, path |-> "failed",
     failed_at |-> step, response |-> newsletter_response(TRUE)]
Succeeded(c, path, ret) ==
    [pc |-> "done", email |-> c.email, prior |-> c.prior, path |-> path,
     ret |-> ret, response |-> newsletter_response(FALSE)]

\* Database.subscribe_newsletter, the insert_one and what follows it at once
InsertSubscriber(p) ==
    /\ call[p].pc = "insert"
    /\ \E fault \in BOOLEAN :
          LET c == call[p]
              n == Len(subscribers) + 1
              subscriber == NewsletterSubscriber(c.email, n)
          IN  IF fault
              THEN /\ call' = [call EXCEPT ![p] = Failed(c, "insert")]
                   /\ UNCHANGED subscribers
              ELSE IF DuplicateKey(c.email)
              THEN /\ call' = [call EXCEPT ![p].pc = "update"]
                   /\ UNCHANGED subscribers
              ELSE /\ subscribers' = Append(subscribers,
                                            WithOid(subscriber, n))
                   /\ call' = [call EXCEPT ![p] =
                                  Succeeded(c, "inserted",
                                      [subscriber EXCEPT !.id = Oid(n)])]
    /\ UNCHANGED <<db, uniqueIndex, now, contacts, inquiries, pages, stats,
                   resp>>

\* the update_one of the duplicate-key path
UpdateSubscriber(p) ==
    /\ call[p].pc = "update"
    /\ \E fault \in BOOLEAN :
          LET c == call[p]
              m == WithEmail(c.email)
          IN  IF fault
              THEN /\ call' = [call EXCEPT ![p] = Failed(c, "update")]
                   /\ UNCHANGED subscribers
              ELSE /\ call' = [call EXCEPT ![p].pc = "read"]
                   /\ subscribers' =
                        IF m = {} THEN subscribers
                        ELSE [subscribers EXCEPT
                                 ![Min(m)].subscribed = TRUE,
                                 ![Min(m)].updated_at = now]
    /\ UNCHANGED <<db, uniqueIndex, now, contacts, inquiries, pages, stats,
                   resp>>

\* the find_one of the duplicate-key path; NewsletterSubscriber(**None) raises
ReadSubscriber(p) ==
    /\ call[p].pc = "read"
    /\ \E fault \in BOOLEAN :
          LET c == call[p]
              m == WithEmail(c.email)
          IN  IF fault \/ m = {}
              THEN call' = [call EXCEPT ![p] = Failed(c, "read")]
              ELSE call' = [call EXCEPT ![p] =
                               Succeeded(c, "updated",
                                   FromDocument(subscribers[Min(m)]))]
    /\ UNCHANGED <<db, uniqueIndex, now, contacts, inquiries, subscribers,
                   pages, stats, resp>>

NewsletterNext ==
    \/ \E indexed \in BOOLEAN : Connect(indexed)
    \/ Tick
    \/ \E p \in Callers, e \in Emails : NewsletterRequest(p, e)
    \/ \E p \in Callers :
          \/ InsertSubscriber(p)
          \/ UpdateSubscriber(p)
          \/ ReadSubscriber(p)

SpecNewsletter == Init /\ [][NewsletterNext]_vars

\* the same requests against a store whose create_indexes went through
IndexedNext ==
    \/ Connect(TRUE)
    \/ Tick
    \/ \E p \in Callers, e \in Emails : NewsletterRequest(p, e)
    \/ \E p \in Callers :
          \/ InsertSubscriber(p)
          \/ UpdateSubscriber(p)
          \/ ReadSubscriber(p)

SpecIndexed == Init /\ [][IndexedNext]_vars

\* GET /stats arrives; the three counts follow, each one a store operation
StatsRequest ==
    /\ db = "open"
    /\ stats.pc = "idle"
    /\ stats' = [pc |-> "contacts",
                 start |-> [contacts |-> Len(contacts),
                            inquiries |-> Len(inquiries),
                            subscribers |-> ActiveSubscribers]]
    /\ UNCHANGED <<db, uniqueIndex, now, contacts, inquiries, subscribers,
                   pages, call, resp>>

StatsDone(r, failed_at) ==
    [pc |-> "done", start |-> stats.start, failed_at |-> failed_at]
        @@ stats_response(r)

CountContacts ==
    /\ stats.pc = "contacts"
    /\ \E fault \in BOOLEAN :
          IF fault THEN stats' = StatsDone(count_failed, "contacts")
          ELSE stats' = [pc |-> "inquiries", start |-> stats.start,
                         total_contacts |-> Len(contacts)]
    /\ UNCHANGED <<db, uniqueIndex, now, contacts, inquiries, subscribers,
                   pages, call, resp>>

CountInquiries ==
    /\ stats.pc = "inquiries"
    /\ \E fault \in BOOLEAN :
          IF fault THEN stats' = StatsDone(count_failed, "inquiries")
          ELSE stats' = [pc |-> "subscribers", start |-> stats.start,
                         total_contacts |-> stats.total_contacts,
                         total_inquiries |-> Len(inquiries)]
    /\ UNCHANGED <<db, uniqueIndex, now, contacts, inquiries, subscribers,
                   pages, call, resp>>

CountSubscribers ==
    /\ stats.pc = "subscribers"
    /\ \E fault \in BOOLEAN :
          IF fault THEN stats' = StatsDone(count_failed, "subscribers")
          ELSE stats' = StatsDone(
                   Returned(computed_stats(stats.total_contacts,
                                           stats.total_inquiries,
                                           ActiveSubscribers), <<>>),
                   "nowhere")
    /\ UNCHANGED <<db, uniqueIndex, now, contacts, inquiries, subscribers,
                   pages, call, resp>>

\* the three submitting handlers, each store operation of theirs able to
\* fail; two signups for one email reach the duplicate-key path
FaultsNext ==
    \/ \E indexed \in BOOLEAN : Connect(indexed)
    \/ submit_contact_form
    \/ \E pt \in {"basic", "standard"}, d \in BOOLEAN :
          submit_project_inquiry(pt, d, FALSE)
    \/ \E p \in {1, 2} : NewsletterRequest(p, "a@x.io")
    \/ \E p \in {1, 2} :
          \/ InsertSubscriber(p)
          \/ UpdateSubscriber(p)
          \/ ReadSubscriber(p)

SpecFaults == Init /\ [][FaultsNext]_vars

\* GET /stats among requests that write to the three collections
StatsNext ==
    \/ \E indexed \in BOOLEAN : Connect(indexed)
    \/ submit_contact_form
    \/ submit_project_inquiry("basic", FALSE, FALSE)
    \/ NewsletterRequest(1, "a@x.io")
    \/ NewsletterRequest(2, "b@x.io")
    \/ \E p \in {1, 2} : InsertSubscriber(p)
    \/ StatsRequest
    \/ CountContacts
    \/ CountInquiries
    \/ CountSubscribers

SpecStats == Init /\ [][StatsNext]_vars

QuoteNext ==
    \/ \E indexed \in BOOLEAN : Connect(indexed)
    \/ \E pt \in ProjectTypes, d \in BOOLEAN, b \in BOOLEAN :
          \/ CalculateProjectCost(pt, d, b)
          \/ GenerateProjectSummary(pt, d, b)
          \/ submit_project_inquiry(pt, d, b)
          \/ get_project_summary(pt, d, b)

SpecQuote == Init /\ [][QuoteNext]_vars

Next ==
    \/ \E indexed \in BOOLEAN : Connect(indexed)
    \/ Tick
    \/ \E pt \in ProjectTypes, d \in BOOLEAN, b \in BOOLEAN :
          \/ CalculateProjectCost(pt, d, b)
          \/ GenerateProjectSummary(pt, d, b)
          \/ submit_project_inquiry(pt, d, b)
          \/ get_project_summary(pt, d, b)
    \/ submit_contact_form
    \/ \E i \in {NoId} \cup ClientIds, s \in {NoStatus, "archived"} :
          CreateContact([id |-> i, status |-> s])
    \/ \E i \in ContactIdArgs, s \in StatusArgs : UpdateContactStatus(i, s)
    \/ \E a \in ListArgs : GetContacts(a[1], a[2])
    \/ \E p \in Callers, e \in Emails : NewsletterRequest(p, e)
    \/ \E p \in Callers :
          \/ InsertSubscriber(p)
          \/ UpdateSubscriber(p)
          \/ ReadSubscriber(p)
    \/ StatsRequest
    \/ CountContacts
    \/ CountInquiries
    \/ CountSubscribers

Spec == Init /\ [][Next]_vars

\* ------------------------------------------------------------------ claims
Recognized == {"basic", "standard"}
Started(email) ==
    {p \in Callers : call[p].pc # "idle" /\ call[p].email = email}

\* C1: under any interleaving of signups for one email that is not yet
\* stored, no state holds two subscriber records with that email, and once all
\* the calls have run to their end (insert, or insert refused then update and
\* read) exactly one record exists, one call having inserted and every other
\* having taken the update path.
C1_OneRecordPerEmail ==
    \A e \in Emails :
        /\ Cardinality(WithEmail(e)) <= 1
        /\ (/\ Started(e) # {}
            /\ \A p \in Started(e) :
                  call[p].pc = "done" /\ call[p].path # "failed") =>
              /\ Cardinality(WithEmail(e)) = 1
              /\ Cardinality({p \in Started(e) :
                                 call[p].path = "inserted"}) = 1
              /\ \A p \in Started(e) :
                    call[p].path \in {"inserted", "updated"}

\* C2: a signup made after an earlier signup for the same email has returned
\* adds no record (one record with the email stays) and returns a subscriber
\* with subscribed = true and the id that the earlier call returned.
C2_SecondSignupKeepsId ==
    \A p \in Callers :
        (call[p].pc = "done" /\ call[p].path # "failed") =>
            \A q \in call[p].prior :
                call[q].path # "failed" =>
                    /\ call[p].path = "updated"
                    /\ Cardinality(WithEmail(call[p].email)) = 1
                    /\ call[p].ret.subscribed
                    /\ call[p].ret.id = call[q].ret.id

\* C3: every stored ProjectInquiry carries the estimated cost that
\* calculate_project_cost gives for its own options, the record a successful
\* submission has just stored carries the cost returned to the submitter, and
\* a standard inquiry with the domain add-on alone is stored at 89.98.
C3_EstimatedCostSnapshot ==
    /\ \A i \in 1..Len(inquiries) :
          LET q == inquiries[i]
          IN  /\ q.estimated_cost =
                    calculate_project_cost(q.project_type, q.include_domain,
                                           q.include_database)
              /\ (q.project_type = "standard" /\ q.include_domain
                     /\ ~q.include_database) => q.estimated_cost = 899800
    /\ (resp.op = "submit_project_inquiry" /\ resp.code = 200) =>
          LET q == inquiries[Len(inquiries)]
          IN  /\ Len(inquiries) = Len(resp.stored) + 1
              /\ q.project_type = resp.project_type
              /\ q.include_domain = resp.include_domain
              /\ q.include_database = resp.include_database
              /\ q.estimated_cost = resp.estimated_cost

C3_Witness ==
    /\ resp.op = "submit_project_inquiry"
    /\ resp.code = 200
    /\ resp.project_type = "standard"
    /\ resp.include_domain
    /\ ~resp.include_database
    /\ Len(inquiries) = 2

\* C4: for a project type other than the exact tokens "basic" and
\* "standard", submit_project_inquiry and get_project_summary both answer
\* 400 (a client error), return no price and no summary, and leave the stored
\* inquiries as they were.
C4_InvalidTypeRejected ==
    (/\ resp.op \in {"submit_project_inquiry", "get_project_summary"}
     /\ resp.project_type \notin Recognized) =>
        /\ resp.code = 400
        /\ "estimated_cost" \notin DOMAIN resp
        /\ "summary" \notin DOMAIN resp
        /\ "id" \notin DOMAIN resp
        /\ inquiries = resp.stored

C4_Witness ==
    /\ resp.op = "submit_project_inquiry"
    /\ resp.project_type = "Basic"
    /\ resp.code = 400
    /\ Len(inquiries) > 0

\* C5: when the store fails, submit_contact_form and submit_project_inquiry
\* (with a valid project type) answer 500 and no success response, while
\* every finished newsletter signup answers success = true, also when the
\* insert, the update or the read-back failed.
C5_StoreFailureOutcomes ==
    /\ (resp.op = "submit_contact_form" /\ resp.fault) =>
          (resp.code = 500 /\ "success" \notin DOMAIN resp)
    /\ (/\ resp.op = "submit_project_inquiry"
        /\ resp.project_type \in Recognized
        /\ resp.fault) =>
          (resp.code = 500 /\ "success" \notin DOMAIN resp)
    /\ \A p \in Callers :
          call[p].pc = "done" =>
              (call[p].response.code = 200 /\ call[p].response.success)

C5_Witness ==
    /\ resp.op = "submit_project_inquiry"
    /\ resp.code = 500
    /\ call[1].pc = "done" /\ call[1].path = "inserted"
    /\ call[2].pc = "done" /\ call[2].path = "failed"
    /\ call[2].failed_at = "read"

\* C6: GET /stats never ends in an error.  When the three counts succeed it
\* returns projects_completed = total_inquiries + 85, client_satisfaction =
\* 100, average_turnaround = 14 and the three counts, each the size its
\* collection had when it was counted (between the size at the start of the
\* request and the size now, the collections only growing); when a count
\* fails it returns the fixed default object 100 / 100 / 14 / 0 / 0 / 0.
C6_StatsNeverFail ==
    stats.pc = "done" =>
        /\ stats.code = 200
        /\ stats.failed_at # "nowhere" =>
              stats.body = [projects_completed |-> 100,
                            client_satisfaction |-> 100,
                            average_turnaround |-> 14,
                            total_contacts |-> 0,
                            total_inquiries |-> 0,
                            newsletter_subscribers |-> 0]
        /\ stats.failed_at = "nowhere" =>
              /\ stats.body.projects_completed
                    = stats.body.total_inquiries + 85
              /\ stats.body.client_satisfaction = 100
              /\ stats.body.average_turnaround = 14
              /\ stats.start.contacts <= stats.body.total_contacts
              /\ stats.body.total_contacts <= Len(contacts)
              /\ stats.start.inquiries <= stats.body.total_inquiries
              /\ stats.body.total_inquiries <= Len(inquiries)
              /\ stats.start.subscribers <= stats.body.newsletter_subscribers
              /\ stats.body.newsletter_subscribers <= ActiveSubscribers

C6_Witness ==
    /\ stats.pc = "done"
    /\ stats.failed_at = "subscribers"
    /\ stats.start.contacts > 0
    /\ stats.start.inquiries > 0

\* C7: calculate_project_cost, in cents, is base + 1999 for the domain +
\* 2999 for the database, with base 6999 for "standard" and 4999 for "basic"
\* and for every unrecognized type; (basic, no, no) is 49.99, (standard, yes,
\* yes) 119.97 and (standard, yes, no) 89.98.
C7_CostLaw ==
    resp.op = "calculate_project_cost" =>
        LET base == IF resp.project_type = "standard" THEN 6999 ELSE 4999
            cents == base + (IF resp.include_domain THEN 1999 ELSE 0)
                          + (IF resp.include_database THEN 2999 ELSE 0)
            is(t, d, b) == /\ resp.project_type = t
                           /\ resp.include_domain = d
                           /\ resp.include_database = b
        IN  /\ resp.value = 100 * cents
            /\ is("basic", FALSE, FALSE) => resp.value = 499900
            /\ is("standard", TRUE, TRUE) => resp.value = 1199700
            /\ is("standard", TRUE, FALSE) => resp.value = 899800

C7_Witness ==
    /\ resp.op = "calculate_project_cost"
    /\ resp.project_type = "premium"
    /\ resp.include_domain
    /\ resp.include_database
    /\ resp.value = 999700

\* C8: the record create_contact returns carries the id under which the record
\* is stored; update_contact_status with the id of a stored contact returns
\* true and sets the status of exactly that record; it returns false only when
\* no stored contact has the id, and then no record changes.
C8_ReturnedIdIsStoredId ==
    /\ (resp.op = "create_contact" /\ ~resp.raised) =>
          contacts[Len(contacts)].id = resp.value.id
    /\ (resp.op = "update_contact_status" /\ ~resp.raised) =>
          LET m == {i \in 1..Len(resp.before) :
                       resp.before[i].id = resp.contact_id}
          IN  /\ m # {} =>
                    /\ resp.value = TRUE
                    /\ \E i \in m :
                          /\ contacts[i].status = resp.status
                          /\ \A j \in 1..Len(contacts) :
                                j # i => contacts[j] = resp.before[j]
              /\ resp.value = FALSE => (m = {} /\ contacts = resp.before)

\* C9: with no write in between, get_contacts(0, L) and get_contacts(L, L)
\* are disjoint and their concatenation is get_contacts(0, 2L); every page is
\* sorted by created_at descending and holds at most limit records.
C9_PagesConcatenate ==
    LET p1 == pages[<<0, PageLimit>>]
        p2 == pages[<<PageLimit, PageLimit>>]
        p12 == pages[<<0, 2 * PageLimit>>]
    IN  /\ \A a \in ListArgs :
              pages[a].listed =>
                  /\ Len(pages[a].items) <= a[2]
                  /\ \A i, j \in 1..Len(pages[a].items) :
                        i < j => pages[a].items[i].created_at
                                     >= pages[a].items[j].created_at
        /\ (p1.listed /\ p2.listed) =>
              \A i \in 1..Len(p1.items), j \in 1..Len(p2.items) :
                  p1.items[i].oid # p2.items[j].oid
        /\ (p1.listed /\ p2.listed /\ p12.listed) =>
              p1.items \o p2.items = p12.items

\* C10: every stored contact has status new, contacted or closed, and a newly
\* created contact has status new.
C10_StatusDomain ==
    /\ \A i \in 1..Len(contacts) :
          contacts[i].status \in {"new", "contacted", "closed"}
    /\ (resp.op = "create_contact" /\ ~resp.raised) =>
          resp.value.status = "new"

\* C11: for every project type string, recognized or not, and every choice
\* of add-ons, the summary of generate_project_summary has total_cost equal
\* to base_cost plus the costs of its addons, its addons are exactly the
\* selected add-ons with the domain before the database, and support_level
\* is "Basic" exactly when base_cost is the basic price.
C11_SummaryConsistent ==
    resp.op = "generate_project_summary" =>
        LET v == resp.value
            costs == [i \in 1..Len(v.addons) |-> v.addons[i].cost]
            sum == IF Len(costs) = 0 THEN 0
                   ELSE IF Len(costs) = 1 THEN costs[1]
                   ELSE costs[1] + costs[2]
            names == [i \in 1..Len(v.addons) |-> v.addons[i].name]
            expected ==
                (IF resp.include_domain THEN <<"Domain Setup">> ELSE <<>>)
                \o (IF resp.include_database THEN <<"Database Setup">>
                    ELSE <<>>)
        IN  /\ Len(v.addons) <= 2
            /\ names = expected
            /\ v.total_cost = v.base_cost + sum
            /\ (v.support_level = "Basic") <=> (v.base_cost = 499900)
====
